---- MODULE Spec2Model ----
(***************************************************************************)
(* The account ledger of src/icp_rust_boilerplate_backend/src/lib.rs:      *)
(* ID_COUNTER, USER_STORAGE and TRANSACTION_STORAGE, and the update and    *)
(* query calls that act on them.  Every call is one action: the host runs  *)
(* each call to completion, and a call that panics traps and leaves the    *)
(* three stores as they were before it.                                    *)
(***************************************************************************)
EXTENDS Integers, Sequences, FiniteSets, TLC

\* ---------------------------------------------------------------- bounds
\* ID_COUNTER is not advanced beyond MaxId.
MaxId == 3
\* At most MaxCredits deposits and redemptions succeed in one behaviour.
MaxCredits == 2
\* In SpecAwards ID_COUNTER is not advanced beyond MaxAwardId.
MaxAwardId == 23

\* ------------------------------------------------------------ u64 values
\* A balance, a points value or an amount is a u64, held as four 16-bit
\* limbs, most significant first, so that values up to 2^64 - 1 and the
\* wrap-around of a sum are exact.
LimbBase == 65536

U64Of(n) == <<0, 0, n \div LimbBase, n % LimbBase>>

U64_ZERO == <<0, 0, 0, 0>>

U64_MAX == <<LimbBase - 1, LimbBase - 1, LimbBase - 1, LimbBase - 1>>

\* a + b in full: <<carry out, the four limbs of (a + b) % 2^64>>
AddFull(a, b) ==
    LET s4 == a[4] + b[4]
        s3 == a[3] + b[3] + (s4 \div LimbBase)
        s2 == a[2] + b[2] + (s3 \div LimbBase)
        s1 == a[1] + b[1] + (s2 \div LimbBase)
    IN  <<s1 \div LimbBase, s1 % LimbBase, s2 % LimbBase, s3 % LimbBase, s4 % LimbBase>>

\* a + b exceeds u64::MAX
AddOverflows(a, b) == AddFull(a, b)[1] # 0

\* (a + b) % 2^64
WrappingAdd(a, b) == Tail(AddFull(a, b))

\* a < b
U64Less(a, b) ==
    \E i \in 1..4 : a[i] < b[i] /\ \A j \in 1..(i - 1) : a[j] = b[j]

\* (a - b) % 2^64; the code subtracts only after checking a >= b
WrappingSub(a, b) ==
    LET d4 == a[4] - b[4]
        d3 == a[3] - b[3] - (IF d4 < 0 THEN 1 ELSE 0)
        d2 == a[2] - b[2] - (IF d3 < 0 THEN 1 ELSE 0)
        d1 == a[1] - b[1] - (IF d2 < 0 THEN 1 ELSE 0)
    IN  <<d1 % LimbBase, d2 % LimbBase, d3 % LimbBase, d4 % LimbBase>>

\* a / 10, truncated (long division, limb by limb)
DivTen(a) ==
    LET c1 == a[1]
        c2 == (c1 % 10) * LimbBase + a[2]
        c3 == (c2 % 10) * LimbBase + a[3]
        c4 == (c3 % 10) * LimbBase + a[4]
    IN  <<c1 \div 10, c2 \div 10, c3 \div 10, c4 \div 10>>

\* ------------------------------------------------------------- strings
\* A String is the sequence of its chars, and a char is its Unicode scalar
\* value: "A" is 65, "@" is 64.  The classes and the case mapping below are
\* tables of the regex crate and of the standard library, as ranges <<first,
\* last>> of scalar values.  The repository pins neither; the tables are
\* those of regex 1.12 for \s and \d (Unicode 16.0) and of Rust 1.95 for
\* Cased, Case_Ignorable and the lowercase mapping (Unicode 17.0).
InRanges(c, ranges) == \E r \in ranges : r[1] <= c /\ c <= r[2]

\* the property White_Space: the class \s of the regex crate
White_Space ==
    { <<9, 13>>, <<32, 32>>, <<133, 133>>, <<160, 160>>, <<5760, 5760>>, <<8192, 8202>>,
      <<8232, 8233>>, <<8239, 8239>>, <<8287, 8287>>, <<12288, 12288>> }

\* the general category Nd (Decimal_Number): the class \d of the regex crate
Decimal_Number ==
    { <<48, 57>>, <<1632, 1641>>, <<1776, 1785>>, <<1984, 1993>>, <<2406, 2415>>, <<2534, 2543>>,
      <<2662, 2671>>, <<2790, 2799>>, <<2918, 2927>>, <<3046, 3055>>, <<3174, 3183>>, <<3302, 3311>>,
      <<3430, 3439>>, <<3558, 3567>>, <<3664, 3673>>, <<3792, 3801>>, <<3872, 3881>>, <<4160, 4169>>,
      <<4240, 4249>>, <<6112, 6121>>, <<6160, 6169>>, <<6470, 6479>>, <<6608, 6617>>, <<6784, 6793>>,
      <<6800, 6809>>, <<6992, 7001>>, <<7088, 7097>>, <<7232, 7241>>, <<7248, 7257>>, <<42528, 42537>>,
      <<43216, 43225>>, <<43264, 43273>>, <<43472, 43481>>, <<43504, 43513>>, <<43600, 43609>>, <<44016, 44025>>,
      <<65296, 65305>>, <<66720, 66729>>, <<68912, 68921>>, <<68928, 68937>>, <<69734, 69743>>, <<69872, 69881>>,
      <<69942, 69951>>, <<70096, 70105>>, <<70384, 70393>>, <<70736, 70745>>, <<70864, 70873>>, <<71248, 71257>>,
      <<71360, 71369>>, <<71376, 71395>>, <<71472, 71481>>, <<71904, 71913>>, <<72016, 72025>>, <<72688, 72697>>,
      <<72784, 72793>>, <<73040, 73049>>, <<73120, 73129>>, <<73552, 73561>>, <<90416, 90425>>, <<92768, 92777>>,
      <<92864, 92873>>, <<93008, 93017>>, <<93552, 93561>>, <<118000, 118009>>, <<120782, 120831>>, <<123200, 123209>>,
      <<123632, 123641>>, <<124144, 124153>>, <<124401, 124410>>, <<125264, 125273>>, <<130032, 130041>> }

\* the property Cased (core::unicode::Cased)
Cased ==
    { <<65, 90>>, <<97, 122>>, <<170, 170>>, <<181, 181>>, <<186, 186>>, <<192, 214>>,
      <<216, 246>>, <<248, 442>>, <<444, 447>>, <<452, 659>>, <<662, 696>>, <<704, 705>>,
      <<736, 740>>, <<837, 837>>, <<880, 883>>, <<886, 887>>, <<890, 893>>, <<895, 895>>,
      <<902, 902>>, <<904, 906>>, <<908, 908>>, <<910, 929>>, <<931, 1013>>, <<1015, 1153>>,
      <<1162, 1327>>, <<1329, 1366>>, <<1376, 1416>>, <<4256, 4293>>, <<4295, 4295>>, <<4301, 4301>>,
      <<4304, 4346>>, <<4348, 4351>>, <<5024, 5109>>, <<5112, 5117>>, <<7296, 7306>>, <<7312, 7354>>,
      <<7357, 7359>>, <<7424, 7615>>, <<7680, 7957>>, <<7960, 7965>>, <<7968, 8005>>, <<8008, 8013>>,
      <<8016, 8023>>, <<8025, 8025>>, <<8027, 8027>>, <<8029, 8029>>, <<8031, 8061>>, <<8064, 8116>>,
      <<8118, 8124>>, <<8126, 8126>>, <<8130, 8132>>, <<8134, 8140>>, <<8144, 8147>>, <<8150, 8155>>,
      <<8160, 8172>>, <<8178, 8180>>, <<8182, 8188>>, <<8305, 8305>>, <<8319, 8319>>, <<8336, 8348>>,
      <<8450, 8450>>, <<8455, 8455>>, <<8458, 8467>>, <<8469, 8469>>, <<8473, 8477>>, <<8484, 8484>>,
      <<8486, 8486>>, <<8488, 8488>>, <<8490, 8493>>, <<8495, 8500>>, <<8505, 8505>>, <<8508, 8511>>,
      <<8517, 8521>>, <<8526, 8526>>, <<8544, 8575>>, <<8579, 8580>>, <<9398, 9449>>, <<11264, 11492>>,
      <<11499, 11502>>, <<11506, 11507>>, <<11520, 11557>>, <<11559, 11559>>, <<11565, 11565>>, <<42560, 42605>>,
      <<42624, 42653>>, <<42786, 42887>>, <<42891, 42894>>, <<42896, 42972>>, <<42993, 42998>>, <<43000, 43002>>,
      <<43824, 43866>>, <<43868, 43881>>, <<43888, 43967>>, <<64256, 64262>>, <<64275, 64279>>, <<65313, 65338>>,
      <<65345, 65370>>, <<66560, 66639>>, <<66736, 66771>>, <<66776, 66811>>, <<66928, 66938>>, <<66940, 66954>>,
      <<66956, 66962>>, <<66964, 66965>>, <<66967, 66977>>, <<66979, 66993>>, <<66995, 67001>>, <<67003, 67004>>,
      <<67456, 67456>>, <<67459, 67461>>, <<67463, 67504>>, <<67506, 67514>>, <<68736, 68786>>, <<68800, 68850>>,
      <<68944, 68965>>, <<68976, 68997>>, <<71840, 71903>>, <<93760, 93823>>, <<93856, 93880>>, <<93883, 93907>>,
      <<119808, 119892>>, <<119894, 119964>>, <<119966, 119967>>, <<119970, 119970>>, <<119973, 119974>>, <<119977, 119980>>,
      <<119982, 119993>>, <<119995, 119995>>, <<119997, 120003>>, <<120005, 120069>>, <<120071, 120074>>, <<120077, 120084>>,
      <<120086, 120092>>, <<120094, 120121>>, <<120123, 120126>>, <<120128, 120132>>, <<120134, 120134>>, <<120138, 120144>>,
      <<120146, 120485>>, <<120488, 120512>>, <<120514, 120538>>, <<120540, 120570>>, <<120572, 120596>>, <<120598, 120628>>,
      <<120630, 120654>>, <<120656, 120686>>, <<120688, 120712>>, <<120714, 120744>>, <<120746, 120770>>, <<120772, 120779>>,
      <<122624, 122633>>, <<122635, 122654>>, <<122661, 122666>>, <<122928, 122989>>, <<125184, 125251>>, <<127280, 127305>>,
      <<127312, 127337>>, <<127344, 127369>> }

\* the property Case_Ignorable (core::unicode::Case_Ignorable)
Case_Ignorable ==
    { <<39, 39>>, <<46, 46>>, <<58, 58>>, <<94, 94>>, <<96, 96>>, <<168, 168>>,
      <<173, 173>>, <<175, 175>>, <<180, 180>>, <<183, 184>>, <<688, 879>>, <<884, 885>>,
      <<890, 890>>, <<900, 901>>, <<903, 903>>, <<1155, 1161>>, <<1369, 1369>>, <<1375, 1375>>,
      <<1425, 1469>>, <<1471, 1471>>, <<1473, 1474>>, <<1476, 1477>>, <<1479, 1479>>, <<1524, 1524>>,
      <<1536, 1541>>, <<1552, 1562>>, <<1564, 1564>>, <<1600, 1600>>, <<1611, 1631>>, <<1648, 1648>>,
      <<1750, 1757>>, <<1759, 1768>>, <<1770, 1773>>, <<1807, 1807>>, <<1809, 1809>>, <<1840, 1866>>,
      <<1958, 1968>>, <<2027, 2037>>, <<2042, 2042>>, <<2045, 2045>>, <<2070, 2093>>, <<2137, 2139>>,
      <<2184, 2184>>, <<2192, 2193>>, <<2199, 2207>>, <<2249, 2306>>, <<2362, 2362>>, <<2364, 2364>>,
      <<2369, 2376>>, <<2381, 2381>>, <<2385, 2391>>, <<2402, 2403>>, <<2417, 2417>>, <<2433, 2433>>,
      <<2492, 2492>>, <<2497, 2500>>, <<2509, 2509>>, <<2530, 2531>>, <<2558, 2558>>, <<2561, 2562>>,
      <<2620, 2620>>, <<2625, 2626>>, <<2631, 2632>>, <<2635, 2637>>, <<2641, 2641>>, <<2672, 2673>>,
      <<2677, 2677>>, <<2689, 2690>>, <<2748, 2748>>, <<2753, 2757>>, <<2759, 2760>>, <<2765, 2765>>,
      <<2786, 2787>>, <<2810, 2815>>, <<2817, 2817>>, <<2876, 2876>>, <<2879, 2879>>, <<2881, 2884>>,
      <<2893, 2893>>, <<2901, 2902>>, <<2914, 2915>>, <<2946, 2946>>, <<3008, 3008>>, <<3021, 3021>>,
      <<3072, 3072>>, <<3076, 3076>>, <<3132, 3132>>, <<3134, 3136>>, <<3142, 3144>>, <<3146, 3149>>,
      <<3157, 3158>>, <<3170, 3171>>, <<3201, 3201>>, <<3260, 3260>>, <<3263, 3263>>, <<3270, 3270>>,
      <<3276, 3277>>, <<3298, 3299>>, <<3328, 3329>>, <<3387, 3388>>, <<3393, 3396>>, <<3405, 3405>>,
      <<3426, 3427>>, <<3457, 3457>>, <<3530, 3530>>, <<3538, 3540>>, <<3542, 3542>>, <<3633, 3633>>,
      <<3636, 3642>>, <<3654, 3662>>, <<3761, 3761>>, <<3764, 3772>>, <<3782, 3782>>, <<3784, 3790>>,
      <<3864, 3865>>, <<3893, 3893>>, <<3895, 3895>>, <<3897, 3897>>, <<3953, 3966>>, <<3968, 3972>>,
      <<3974, 3975>>, <<3981, 3991>>, <<3993, 4028>>, <<4038, 4038>>, <<4141, 4144>>, <<4146, 4151>>,
      <<4153, 4154>>, <<4157, 4158>>, <<4184, 4185>>, <<4190, 4192>>, <<4209, 4212>>, <<4226, 4226>>,
      <<4229, 4230>>, <<4237, 4237>>, <<4253, 4253>>, <<4348, 4348>>, <<4957, 4959>>, <<5906, 5908>>,
      <<5938, 5939>>, <<5970, 5971>>, <<6002, 6003>>, <<6068, 6069>>, <<6071, 6077>>, <<6086, 6086>>,
      <<6089, 6099>>, <<6103, 6103>>, <<6109, 6109>>, <<6155, 6159>>, <<6211, 6211>>, <<6277, 6278>>,
      <<6313, 6313>>, <<6432, 6434>>, <<6439, 6440>>, <<6450, 6450>>, <<6457, 6459>>, <<6679, 6680>>,
      <<6683, 6683>>, <<6742, 6742>>, <<6744, 6750>>, <<6752, 6752>>, <<6754, 6754>>, <<6757, 6764>>,
      <<6771, 6780>>, <<6783, 6783>>, <<6823, 6823>>, <<6832, 6877>>, <<6880, 6891>>, <<6912, 6915>>,
      <<6964, 6964>>, <<6966, 6970>>, <<6972, 6972>>, <<6978, 6978>>, <<7019, 7027>>, <<7040, 7041>>,
      <<7074, 7077>>, <<7080, 7081>>, <<7083, 7085>>, <<7142, 7142>>, <<7144, 7145>>, <<7149, 7149>>,
      <<7151, 7153>>, <<7212, 7219>>, <<7222, 7223>>, <<7288, 7293>>, <<7376, 7378>>, <<7380, 7392>>,
      <<7394, 7400>>, <<7405, 7405>>, <<7412, 7412>>, <<7416, 7417>>, <<7468, 7530>>, <<7544, 7544>>,
      <<7579, 7679>>, <<8125, 8125>>, <<8127, 8129>>, <<8141, 8143>>, <<8157, 8159>>, <<8173, 8175>>,
      <<8189, 8190>>, <<8203, 8207>>, <<8216, 8217>>, <<8228, 8228>>, <<8231, 8231>>, <<8234, 8238>>,
      <<8288, 8292>>, <<8294, 8303>>, <<8305, 8305>>, <<8319, 8319>>, <<8336, 8348>>, <<8400, 8432>>,
      <<11388, 11389>>, <<11503, 11505>>, <<11631, 11631>>, <<11647, 11647>>, <<11744, 11775>>, <<11823, 11823>>,
      <<12293, 12293>>, <<12330, 12333>>, <<12337, 12341>>, <<12347, 12347>>, <<12441, 12446>>, <<12540, 12542>>,
      <<40981, 40981>>, <<42232, 42237>>, <<42508, 42508>>, <<42607, 42610>>, <<42612, 42621>>, <<42623, 42623>>,
      <<42652, 42655>>, <<42736, 42737>>, <<42752, 42785>>, <<42864, 42864>>, <<42888, 42890>>, <<42993, 42996>>,
      <<43000, 43001>>, <<43010, 43010>>, <<43014, 43014>>, <<43019, 43019>>, <<43045, 43046>>, <<43052, 43052>>,
      <<43204, 43205>>, <<43232, 43249>>, <<43263, 43263>>, <<43302, 43309>>, <<43335, 43345>>, <<43392, 43394>>,
      <<43443, 43443>>, <<43446, 43449>>, <<43452, 43453>>, <<43471, 43471>>, <<43493, 43494>>, <<43561, 43566>>,
      <<43569, 43570>>, <<43573, 43574>>, <<43587, 43587>>, <<43596, 43596>>, <<43632, 43632>>, <<43644, 43644>>,
      <<43696, 43696>>, <<43698, 43700>>, <<43703, 43704>>, <<43710, 43711>>, <<43713, 43713>>, <<43741, 43741>>,
      <<43756, 43757>>, <<43763, 43764>>, <<43766, 43766>>, <<43867, 43871>>, <<43881, 43883>>, <<44005, 44005>>,
      <<44008, 44008>>, <<44013, 44013>>, <<64286, 64286>>, <<64434, 64450>>, <<65024, 65039>>, <<65043, 65043>>,
      <<65056, 65071>>, <<65106, 65106>>, <<65109, 65109>>, <<65279, 65279>>, <<65287, 65287>>, <<65294, 65294>>,
      <<65306, 65306>>, <<65342, 65342>>, <<65344, 65344>>, <<65392, 65392>>, <<65438, 65439>>, <<65507, 65507>>,
      <<65529, 65531>>, <<66045, 66045>>, <<66272, 66272>>, <<66422, 66426>>, <<67456, 67461>>, <<67463, 67504>>,
      <<67506, 67514>>, <<68097, 68099>>, <<68101, 68102>>, <<68108, 68111>>, <<68152, 68154>>, <<68159, 68159>>,
      <<68325, 68326>>, <<68900, 68903>>, <<68942, 68942>>, <<68969, 68973>>, <<68975, 68975>>, <<69291, 69292>>,
      <<69317, 69317>>, <<69370, 69375>>, <<69446, 69456>>, <<69506, 69509>>, <<69633, 69633>>, <<69688, 69702>>,
      <<69744, 69744>>, <<69747, 69748>>, <<69759, 69761>>, <<69811, 69814>>, <<69817, 69818>>, <<69821, 69821>>,
      <<69826, 69826>>, <<69837, 69837>>, <<69888, 69890>>, <<69927, 69931>>, <<69933, 69940>>, <<70003, 70003>>,
      <<70016, 70017>>, <<70070, 70078>>, <<70089, 70092>>, <<70095, 70095>>, <<70191, 70193>>, <<70196, 70196>>,
      <<70198, 70199>>, <<70206, 70206>>, <<70209, 70209>>, <<70367, 70367>>, <<70371, 70378>>, <<70400, 70401>>,
      <<70459, 70460>>, <<70464, 70464>>, <<70502, 70508>>, <<70512, 70516>>, <<70587, 70592>>, <<70606, 70606>>,
      <<70608, 70608>>, <<70610, 70610>>, <<70625, 70626>>, <<70712, 70719>>, <<70722, 70724>>, <<70726, 70726>>,
      <<70750, 70750>>, <<70835, 70840>>, <<70842, 70842>>, <<70847, 70848>>, <<70850, 70851>>, <<71090, 71093>>,
      <<71100, 71101>>, <<71103, 71104>>, <<71132, 71133>>, <<71219, 71226>>, <<71229, 71229>>, <<71231, 71232>>,
      <<71339, 71339>>, <<71341, 71341>>, <<71344, 71349>>, <<71351, 71351>>, <<71453, 71453>>, <<71455, 71455>>,
      <<71458, 71461>>, <<71463, 71467>>, <<71727, 71735>>, <<71737, 71738>>, <<71995, 71996>>, <<71998, 71998>>,
      <<72003, 72003>>, <<72148, 72151>>, <<72154, 72155>>, <<72160, 72160>>, <<72193, 72202>>, <<72243, 72248>>,
      <<72251, 72254>>, <<72263, 72263>>, <<72273, 72278>>, <<72281, 72283>>, <<72330, 72342>>, <<72344, 72345>>,
      <<72544, 72544>>, <<72546, 72548>>, <<72550, 72550>>, <<72752, 72758>>, <<72760, 72765>>, <<72767, 72767>>,
      <<72850, 72871>>, <<72874, 72880>>, <<72882, 72883>>, <<72885, 72886>>, <<73009, 73014>>, <<73018, 73018>>,
      <<73020, 73021>>, <<73023, 73029>>, <<73031, 73031>>, <<73104, 73105>>, <<73109, 73109>>, <<73111, 73111>>,
      <<73177, 73177>>, <<73459, 73460>>, <<73472, 73473>>, <<73526, 73530>>, <<73536, 73536>>, <<73538, 73538>>,
      <<73562, 73562>>, <<78896, 78912>>, <<78919, 78933>>, <<90398, 90409>>, <<90413, 90415>>, <<92912, 92916>>,
      <<92976, 92982>>, <<92992, 92995>>, <<93504, 93506>>, <<93547, 93548>>, <<94031, 94031>>, <<94095, 94111>>,
      <<94176, 94177>>, <<94179, 94180>>, <<94194, 94195>>, <<110576, 110579>>, <<110581, 110587>>, <<110589, 110590>>,
      <<113821, 113822>>, <<113824, 113827>>, <<118528, 118573>>, <<118576, 118598>>, <<119143, 119145>>, <<119155, 119170>>,
      <<119173, 119179>>, <<119210, 119213>>, <<119362, 119364>>, <<121344, 121398>>, <<121403, 121452>>, <<121461, 121461>>,
      <<121476, 121476>>, <<121499, 121503>>, <<121505, 121519>>, <<122880, 122886>>, <<122888, 122904>>, <<122907, 122913>>,
      <<122915, 122916>>, <<122918, 122922>>, <<122928, 122989>>, <<123023, 123023>>, <<123184, 123197>>, <<123566, 123566>>,
      <<123628, 123631>>, <<124139, 124143>>, <<124398, 124399>>, <<124643, 124643>>, <<124646, 124646>>, <<124654, 124655>>,
      <<124661, 124661>>, <<124671, 124671>>, <<125136, 125142>>, <<125252, 125259>>, <<127995, 127999>>, <<917505, 917505>>,
      <<917536, 917631>>, <<917760, 917999>> }

\* The chars whose lowercase is one other char, as <<first, last, step,
\* offset>>: the chars first, first + step, ..., last map to themselves plus
\* offset.
Lowercase_Mapping ==
    { <<65, 90, 1, 32>>, <<192, 214, 1, 32>>, <<216, 222, 1, 32>>, <<256, 302, 2, 1>>,
      <<306, 310, 2, 1>>, <<313, 327, 2, 1>>, <<330, 374, 2, 1>>, <<376, 376, 1, -121>>,
      <<377, 381, 2, 1>>, <<385, 385, 1, 210>>, <<386, 388, 2, 1>>, <<390, 390, 1, 206>>,
      <<391, 391, 1, 1>>, <<393, 394, 1, 205>>, <<395, 395, 1, 1>>, <<398, 398, 1, 79>>,
      <<399, 399, 1, 202>>, <<400, 400, 1, 203>>, <<401, 401, 1, 1>>, <<403, 403, 1, 205>>,
      <<404, 404, 1, 207>>, <<406, 406, 1, 211>>, <<407, 407, 1, 209>>, <<408, 408, 1, 1>>,
      <<412, 412, 1, 211>>, <<413, 413, 1, 213>>, <<415, 415, 1, 214>>, <<416, 420, 2, 1>>,
      <<422, 422, 1, 218>>, <<423, 423, 1, 1>>, <<425, 425, 1, 218>>, <<428, 428, 1, 1>>,
      <<430, 430, 1, 218>>, <<431, 431, 1, 1>>, <<433, 434, 1, 217>>, <<435, 437, 2, 1>>,
      <<439, 439, 1, 219>>, <<440, 440, 1, 1>>, <<444, 444, 1, 1>>, <<452, 452, 1, 2>>,
      <<453, 453, 1, 1>>, <<455, 455, 1, 2>>, <<456, 456, 1, 1>>, <<458, 458, 1, 2>>,
      <<459, 475, 2, 1>>, <<478, 494, 2, 1>>, <<497, 497, 1, 2>>, <<498, 500, 2, 1>>,
      <<502, 502, 1, -97>>, <<503, 503, 1, -56>>, <<504, 542, 2, 1>>, <<544, 544, 1, -130>>,
      <<546, 562, 2, 1>>, <<570, 570, 1, 10795>>, <<571, 571, 1, 1>>, <<573, 573, 1, -163>>,
      <<574, 574, 1, 10792>>, <<577, 577, 1, 1>>, <<579, 579, 1, -195>>, <<580, 580, 1, 69>>,
      <<581, 581, 1, 71>>, <<582, 590, 2, 1>>, <<880, 882, 2, 1>>, <<886, 886, 1, 1>>,
      <<895, 895, 1, 116>>, <<902, 902, 1, 38>>, <<904, 906, 1, 37>>, <<908, 908, 1, 64>>,
      <<910, 911, 1, 63>>, <<913, 929, 1, 32>>, <<931, 939, 1, 32>>, <<975, 975, 1, 8>>,
      <<984, 1006, 2, 1>>, <<1012, 1012, 1, -60>>, <<1015, 1015, 1, 1>>, <<1017, 1017, 1, -7>>,
      <<1018, 1018, 1, 1>>, <<1021, 1023, 1, -130>>, <<1024, 1039, 1, 80>>, <<1040, 1071, 1, 32>>,
      <<1120, 1152, 2, 1>>, <<1162, 1214, 2, 1>>, <<1216, 1216, 1, 15>>, <<1217, 1229, 2, 1>>,
      <<1232, 1326, 2, 1>>, <<1329, 1366, 1, 48>>, <<4256, 4293, 1, 7264>>, <<4295, 4295, 1, 7264>>,
      <<4301, 4301, 1, 7264>>, <<5024, 5103, 1, 38864>>, <<5104, 5109, 1, 8>>, <<7305, 7305, 1, 1>>,
      <<7312, 7354, 1, -3008>>, <<7357, 7359, 1, -3008>>, <<7680, 7828, 2, 1>>, <<7838, 7838, 1, -7615>>,
      <<7840, 7934, 2, 1>>, <<7944, 7951, 1, -8>>, <<7960, 7965, 1, -8>>, <<7976, 7983, 1, -8>>,
      <<7992, 7999, 1, -8>>, <<8008, 8013, 1, -8>>, <<8025, 8031, 2, -8>>, <<8040, 8047, 1, -8>>,
      <<8072, 8079, 1, -8>>, <<8088, 8095, 1, -8>>, <<8104, 8111, 1, -8>>, <<8120, 8121, 1, -8>>,
      <<8122, 8123, 1, -74>>, <<8124, 8124, 1, -9>>, <<8136, 8139, 1, -86>>, <<8140, 8140, 1, -9>>,
      <<8152, 8153, 1, -8>>, <<8154, 8155, 1, -100>>, <<8168, 8169, 1, -8>>, <<8170, 8171, 1, -112>>,
      <<8172, 8172, 1, -7>>, <<8184, 8185, 1, -128>>, <<8186, 8187, 1, -126>>, <<8188, 8188, 1, -9>>,
      <<8486, 8486, 1, -7517>>, <<8490, 8490, 1, -8383>>, <<8491, 8491, 1, -8262>>, <<8498, 8498, 1, 28>>,
      <<8544, 8559, 1, 16>>, <<8579, 8579, 1, 1>>, <<9398, 9423, 1, 26>>, <<11264, 11311, 1, 48>>,
      <<11360, 11360, 1, 1>>, <<11362, 11362, 1, -10743>>, <<11363, 11363, 1, -3814>>, <<11364, 11364, 1, -10727>>,
      <<11367, 11371, 2, 1>>, <<11373, 11373, 1, -10780>>, <<11374, 11374, 1, -10749>>, <<11375, 11375, 1, -10783>>,
      <<11376, 11376, 1, -10782>>, <<11378, 11378, 1, 1>>, <<11381, 11381, 1, 1>>, <<11390, 11391, 1, -10815>>,
      <<11392, 11490, 2, 1>>, <<11499, 11501, 2, 1>>, <<11506, 11506, 1, 1>>, <<42560, 42604, 2, 1>>,
      <<42624, 42650, 2, 1>>, <<42786, 42798, 2, 1>>, <<42802, 42862, 2, 1>>, <<42873, 42875, 2, 1>>,
      <<42877, 42877, 1, -35332>>, <<42878, 42886, 2, 1>>, <<42891, 42891, 1, 1>>, <<42893, 42893, 1, -42280>>,
      <<42896, 42898, 2, 1>>, <<42902, 42920, 2, 1>>, <<42922, 42922, 1, -42308>>, <<42923, 42923, 1, -42319>>,
      <<42924, 42924, 1, -42315>>, <<42925, 42925, 1, -42305>>, <<42926, 42926, 1, -42308>>, <<42928, 42928, 1, -42258>>,
      <<42929, 42929, 1, -42282>>, <<42930, 42930, 1, -42261>>, <<42931, 42931, 1, 928>>, <<42932, 42946, 2, 1>>,
      <<42948, 42948, 1, -48>>, <<42949, 42949, 1, -42307>>, <<42950, 42950, 1, -35384>>, <<42951, 42953, 2, 1>>,
      <<42955, 42955, 1, -42343>>, <<42956, 42970, 2, 1>>, <<42972, 42972, 1, -42561>>, <<42997, 42997, 1, 1>>,
      <<65313, 65338, 1, 32>>, <<66560, 66599, 1, 40>>, <<66736, 66771, 1, 40>>, <<66928, 66964, 2, 39>>,
      <<66929, 66937, 2, 39>>, <<66941, 66953, 2, 39>>, <<66957, 66961, 2, 39>>, <<66965, 66965, 1, 39>>,
      <<68736, 68786, 1, 64>>, <<68944, 68965, 1, 32>>, <<71840, 71871, 1, 32>>, <<93760, 93791, 1, 32>>,
      <<93856, 93880, 1, 27>>, <<125184, 125217, 1, 34>> }

Digits == UNION {r[1]..r[2] : r \in Decimal_Number}

IsWhitespace(c) == InRanges(c, White_Space)

\* the class [^\s@]
IsAtom(c) == ~IsWhitespace(c) /\ c # 64

AllAtoms(s, i, j) == \A k \in i..j : IsAtom(s[k])

\* ^[^\s@]+@[^\s@]+\.[^\s@]+$  ("@" is 64, "." is 46)
email_regex(s) ==
    \E i \in 1..Len(s), j \in 1..Len(s) :
        /\ s[i] = 64 /\ s[j] = 46
        /\ 2 <= i /\ i + 2 <= j /\ j + 1 <= Len(s)
        /\ AllAtoms(s, 1, i - 1)
        /\ AllAtoms(s, i + 1, j - 1)
        /\ AllAtoms(s, j + 1, Len(s))

\* ^\+?[1-9]\d{1,14}$  ("+" is 43, "1" to "9" are 49 to 57)
phone_regex(s) ==
    LET d == IF Len(s) > 0 /\ s[1] = 43 THEN Tail(s) ELSE s
    IN  /\ 2 <= Len(d) /\ Len(d) <= 15
        /\ d[1] \in 49..57
        /\ \A k \in 2..Len(d) : d[k] \in Digits

\* char::to_lowercase: the chars a char becomes.  U+0130 (304) becomes "i"
\* and U+0307; every other char becomes one char.
to_lowercase_char(c) ==
    IF c = 304
    THEN <<105, 775>>
    ELSE LET runs == {r \in Lowercase_Mapping :
                         r[1] <= c /\ c <= r[2] /\ (c - r[1]) % r[3] = 0}
         IN  IF runs = {} THEN <<c>> ELSE <<c + (CHOOSE r \in runs : TRUE)[4]>>

\* the first char of s[from], s[from + dir], ... that is not Case_Ignorable
\* is Cased
case_ignorable_then_cased(s, from, dir) ==
    LET rest == {k \in 1..Len(s) :
                    (k - from) * dir >= 0 /\ ~InRanges(s[k], Case_Ignorable)}
    IN  /\ rest # {}
        /\ LET k == CHOOSE k \in rest : \A j \in rest : (j - k) * dir >= 0
           IN  InRanges(s[k], Cased)

\* str::to_lowercase on U+03A3 (931) at index i: U+03C2 (962) at the end of
\* a word, U+03C3 (963) elsewhere
map_uppercase_sigma(s, i) ==
    IF /\ case_ignorable_then_cased(s, i - 1, -1)
       /\ ~case_ignorable_then_cased(s, i + 1, 1)
    THEN 962
    ELSE 963

\* the concatenation of the sequences of ss, by halves
RECURSIVE Flatten(_)
Flatten(ss) ==
    IF ss = <<>> THEN <<>>
    ELSE IF Len(ss) = 1 THEN ss[1]
    ELSE LET h == Len(ss) \div 2
         IN  Flatten(SubSeq(ss, 1, h)) \o Flatten(SubSeq(ss, h + 1, Len(ss)))

\* str::to_lowercase
to_lowercase(s) ==
    Flatten([k \in 1..Len(s) |->
                IF s[k] = 931 THEN <<map_uppercase_sigma(s, k)>>
                              ELSE to_lowercase_char(s[k])])

\* .chars().take(n).collect()
Take(s, n) == IF Len(s) <= n THEN s ELSE SubSeq(s, 1, n)

\* format!("{}{}", first.to_lowercase(), last.to_lowercase()).chars().take(10)
MakeUsername(first_name, last_name) ==
    Take(to_lowercase(first_name) \o to_lowercase(last_name), 10)

\* the bytes of a char in UTF-8
Utf8Len(c) == IF c < 128 THEN 1 ELSE IF c < 2048 THEN 2 ELSE IF c < 65536 THEN 3 ELSE 4

\* String::len: the bytes of a String, one to four for each char
StrBytes(s) ==
    Cardinality({<<k, b>> \in (1..Len(s)) \X (1..4) : b <= Utf8Len(s[k])})

\* the bytes of n in LEB128
RECURSIVE Leb128Len(_)
Leb128Len(n) == IF n < 128 THEN 1 ELSE 1 + Leb128Len(n \div 128)

\* a text value in Candid: its length in bytes as LEB128, then its bytes
TextLen(s) == Leb128Len(StrBytes(s)) + StrBytes(s)

\* Encode!(user): the bytes before the values are "DIDL", a type table of
\* one record type with nine fields (each the LEB128 of the hash of its name,
\* 3 bytes for id and 5 for the others, and one byte of type) and one
\* argument type
UserHeaderLen == 4 + (1 + 1 + 1 + (3 + 1) + 8 * (5 + 1)) + (1 + 1)

\* User::to_bytes().len(): the header, four nat64 values of 8 bytes and five
\* text values
EncodedLen(user) ==
    UserHeaderLen + 4 * 8
        + TextLen(user.first_name) + TextLen(user.last_name)
        + TextLen(user.username) + TextLen(user.email)
        + TextLen(user.phone_number)

\* BoundedStorable for User
MAX_SIZE == 1024

\* ---------------------------------------------------------------- maps
\* A StableBTreeMap is a function from its keys to its values.
EmptyMap == [k \in {} |-> {}]

\* StableBTreeMap::insert: adds the key or replaces its value
Insert(m, k, v) == [x \in (DOMAIN m) \cup {k} |-> IF x = k THEN v ELSE m[x]]

\* StableBTreeMap::remove
Remove(m, k) == [x \in (DOMAIN m) \ {k} |-> m[x]]

SetMin(S) == CHOOSE x \in S : \A y \in S : x <= y

RECURSIVE KeysAscending(_)
KeysAscending(S) ==
    IF S = {} THEN <<>>
    ELSE LET k == SetMin(S) IN <<k>> \o KeysAscending(S \ {k})

\* StableBTreeMap::iter: the values, in ascending key order
Iter(m) ==
    LET ks == KeysAscending(DOMAIN m)
    IN  [i \in 1..Len(ks) |-> m[ks[i]]]

\* Option: None is <<>>, Some(v) is <<v>>
None == <<>>

Some(v) == <<v>>

\* the scan of lines 227-231 with a predicate every user satisfies
FindUser_Any(us, id) ==
    IF Iter(us) = <<>> THEN None ELSE Some(Head(Iter(us)))

\* .iter().find(|(_, user)| user.id == id).map(|(_, user)| user.clone())
FindUser(us, id) ==
    LET hits == SelectSeq(Iter(us), LAMBDA u : u.id = id)
    IN  IF hits = <<>> THEN None ELSE Some(Head(hits))

\* the scan of lines 151-156, stopping after the first stored user
is_email_unique_FirstOnly(us, email) ==
    \A k \in DOMAIN us : k = SetMin(DOMAIN us) => us[k].email # email

\* .iter().all(|(_, user)| user.email != email)
is_email_unique(us, email) == \A k \in DOMAIN us : us[k].email # email

\* ------------------------------------------------------------- results
Ok(v) == [tag |-> "Ok", val |-> v]

Err(kind, msg) == [tag |-> "Err", val |-> [kind |-> kind, msg |-> msg]]

Trap == [tag |-> "Trap", val |-> <<>>]

\* the allocation of lines 161-166, taking the value stored as the id
NextId_StoredValue(c) == [id |-> c + 1, counter |-> c + 1]

\* the allocation of lines 161-166, storing the value read
NextId_NotAdvanced(c) == [id |-> c, counter |-> c]

\* ID_COUNTER: Cell::set stores current_value + 1 and returns the value it
\* replaces, which becomes the id.
NextId(c) == [id |-> c, counter |-> c + 1]

\* ---------------------------------------------------------------- state
VARIABLES
    counter,          \* ID_COUNTER
    users,            \* USER_STORAGE
    txs,              \* TRANSACTION_STORAGE
    now,              \* the value time() returns
    overflow_checks,  \* whether the build panics on arithmetic overflow
    credits,          \* number of deposits and redemptions that succeeded
    deposited         \* per user, the sum of the amounts deposited with success

vars == <<counter, users, txs, now, overflow_checks, credits, deposited>>

\* What a call leaves behind: the three stores and the value returned.
Outcome(c, us, ts, res) == [counter |-> c, users |-> us, txs |-> ts, res |-> res]

\* lhs += rhs on u64 panics in a build with overflow checks
AddPanics(a, b) == overflow_checks /\ AddOverflows(a, b)

\* ------------------------------------------------------------ create_user
\* create_user with the allocation of lines 161-166 moved before the checks
CreateUser_IdFirst(c, us, ts, payload, t) ==
    LET a == NextId(c) IN
    IF \/ Len(payload.first_name) = 0
       \/ Len(payload.last_name) = 0
       \/ Len(payload.email) = 0
       \/ Len(payload.phone_number) = 0
    THEN Outcome(a.counter, us, ts, Err("InvalidPayload",
             "Ensure 'first_name', 'last_name', 'email', and 'phone_number' are provided."))
    ELSE IF ~email_regex(payload.email)
    THEN Outcome(a.counter, us, ts, Err("InvalidPayload", "Invalid email address format"))
    ELSE IF ~phone_regex(payload.phone_number)
    THEN Outcome(a.counter, us, ts, Err("InvalidPayload", "Invalid phone number format"))
    ELSE IF ~is_email_unique(us, payload.email)
    THEN Outcome(a.counter, us, ts, Err("InvalidPayload", "Email already exists"))
    ELSE LET user == [id           |-> a.id,
                      username     |-> MakeUsername(payload.first_name, payload.last_name),
                      first_name   |-> payload.first_name,
                      last_name    |-> payload.last_name,
                      email        |-> payload.email,
                      phone_number |-> payload.phone_number,
                      created_at   |-> t,
                      balance      |-> U64_ZERO,
                      points       |-> U64_ZERO]
         IN  IF EncodedLen(user) > MAX_SIZE
             THEN Outcome(c, us, ts, Trap)
             ELSE Outcome(a.counter, Insert(us, a.id, user), ts, Ok(user))

\* The insert of line 189 panics on a record of more than MAX_SIZE bytes
\* and the call traps.  The records the other calls insert are stored
\* records with another balance or points value, of the same size.
CreateUser(c, us, ts, payload, t) ==
    IF \/ Len(payload.first_name) = 0
       \/ Len(payload.last_name) = 0
       \/ Len(payload.email) = 0
       \/ Len(payload.phone_number) = 0
    THEN Outcome(c, us, ts, Err("InvalidPayload",
             "Ensure 'first_name', 'last_name', 'email', and 'phone_number' are provided."))
    ELSE IF ~email_regex(payload.email)
    THEN Outcome(c, us, ts, Err("InvalidPayload", "Invalid email address format"))
    ELSE IF ~phone_regex(payload.phone_number)
    THEN Outcome(c, us, ts, Err("InvalidPayload", "Invalid phone number format"))
    ELSE IF ~is_email_unique(us, payload.email)
    THEN Outcome(c, us, ts, Err("InvalidPayload", "Email already exists"))
    ELSE LET a == NextId(c)
             user == [id           |-> a.id,
                      username     |-> MakeUsername(payload.first_name, payload.last_name),
                      first_name   |-> payload.first_name,
                      last_name    |-> payload.last_name,
                      email        |-> payload.email,
                      phone_number |-> payload.phone_number,
                      created_at   |-> t,
                      balance      |-> U64_ZERO,
                      points       |-> U64_ZERO]
         IN  IF EncodedLen(user) > MAX_SIZE
             THEN Outcome(c, us, ts, Trap)
             ELSE Outcome(a.counter, Insert(us, a.id, user), ts, Ok(user))

\* ---------------------------------------------------------- deposit_funds
DepositFunds(c, us, ts, payload) ==
    IF payload.amount = U64_ZERO
    THEN Outcome(c, us, ts, Err("InvalidPayload", "Amount must be greater than 0."))
    ELSE IF payload.user_id \in DOMAIN us
    THEN LET user == us[payload.user_id]
             removed == Remove(us, payload.user_id)
         IN  IF AddPanics(user.balance, payload.amount)
             THEN Outcome(c, us, ts, Trap)
             ELSE Outcome(c,
                          Insert(removed, payload.user_id,
                                 [user EXCEPT !.balance = WrappingAdd(@, payload.amount)]),
                          ts,
                          Ok([kind |-> "Success",
                              msg  |-> <<"Deposited", payload.amount,
                                         "units of currency to user", payload.user_id>>]))
    ELSE Outcome(c, us, ts, Err("NotFound", "User not found"))

\* ------------------------------------------------------- send_transaction
\* the write-back of lines 258-261 with the recipient's copy stored under
\* the sender's key
WriteBack_Swapped(us, from_user, to_user, amount) ==
    LET debited  == [from_user EXCEPT !.balance = WrappingSub(@, amount)]
        credited == [to_user EXCEPT !.balance = WrappingAdd(@, amount)]
    IN  Insert(Insert(us, debited.id, debited), debited.id, credited)

\* lines 255-261: debit the sender's copy, credit the recipient's copy and
\* write both back, the sender's first
WriteBack(us, from_user, to_user, amount) ==
    LET debited  == [from_user EXCEPT !.balance = WrappingSub(@, amount)]
        credited == [to_user EXCEPT !.balance = WrappingAdd(@, amount)]
    IN  Insert(Insert(us, debited.id, debited), credited.id, credited)

\* the award of lines 282-288 without the insert of line 286
AwardPoints_NoInsert(us, from_user_id, points) == Remove(us, from_user_id)

\* lines 281-288: the points award, on the record now stored under the
\* sender's key
AwardPoints(us, from_user_id, points) ==
    IF from_user_id \in DOMAIN us
    THEN Insert(Remove(us, from_user_id), from_user_id,
                [us[from_user_id] EXCEPT !.points = WrappingAdd(@, points)])
    ELSE us

\* the comparison of line 251, reversed
InsufficientBalance_Reversed(from_user, amount) == U64Less(amount, from_user.balance)

\* line 251: from_user.balance < payload.amount
InsufficientBalance(from_user, amount) == U64Less(from_user.balance, amount)

\* line 278 left out
LogTransaction_Missing(ts, transaction) == ts

\* the insert of line 278, keyed by the sender
LogTransaction_BySender(ts, transaction) ==
    Insert(ts, transaction.from_user_id, transaction)

\* line 278: TRANSACTION_STORAGE insert(id, transaction)
LogTransaction(ts, transaction) == Insert(ts, transaction.id, transaction)

\* line 281: one point for every 10 units of currency
TransferPoints(amount) == DivTen(amount)

SendTransaction(c, us, ts, payload, t) ==
    LET from_opt == FindUser(us, payload.from_user_id)
        to_opt   == FindUser(us, payload.to_user_id)
    IN
    IF payload.amount = U64_ZERO
    THEN Outcome(c, us, ts, Err("InvalidPayload", "Amount must be greater than 0."))
    ELSE IF from_opt = None
    THEN Outcome(c, us, ts, Err("NotFound", "Sender not found"))
    ELSE IF to_opt = None
    THEN Outcome(c, us, ts, Err("NotFound", "Recipient not found"))
    ELSE LET from_user == from_opt[1]
             to_user   == to_opt[1]
         IN
         IF InsufficientBalance(from_user, payload.amount)
         THEN Outcome(c, us, ts, Err("Error", "Insufficient balance."))
         ELSE IF AddPanics(to_user.balance, payload.amount)
         THEN Outcome(c, us, ts, Trap)
         ELSE LET written == WriteBack(us, from_user, to_user, payload.amount)
                  a == NextId(c)
                  transaction == [id           |-> a.id,
                                  from_user_id |-> payload.from_user_id,
                                  to_user_id   |-> payload.to_user_id,
                                  amount       |-> payload.amount,
                                  created_at   |-> t]
                  logged == LogTransaction(ts, transaction)
                  points == TransferPoints(payload.amount)
              IN  IF /\ payload.from_user_id \in DOMAIN written
                     /\ AddPanics(written[payload.from_user_id].points, points)
                  THEN Outcome(c, us, ts, Trap)
                  ELSE Outcome(a.counter,
                               AwardPoints(written, payload.from_user_id, points),
                               logged,
                               Ok(transaction))

\* ---------------------------------------------------------- redeem_points
\* the error path of lines 305-308 without the insert of line 306
Reinsert_Missing(removed, user_id, user) == removed

\* line 306: the record taken out by remove() is put back unchanged
Reinsert(removed, user_id, user) == Insert(removed, user_id, user)

\* redeem_points with > for the >= of line 296
RedeemPoints_Strict(c, us, ts, payload) ==
    IF payload.user_id \in DOMAIN us
    THEN LET user == us[payload.user_id]
             removed == Remove(us, payload.user_id)
         IN  IF U64Less(payload.points, user.points)
             THEN Outcome(c,
                          Insert(removed, payload.user_id,
                                 [user EXCEPT !.points = WrappingSub(@, payload.points)]),
                          ts,
                          Ok([kind |-> "Success",
                              msg  |-> <<"Redeemed", payload.points,
                                         "points from user", payload.user_id>>]))
             ELSE Outcome(c, Reinsert(removed, payload.user_id, user), ts,
                          Err("Error", "Insufficient points."))
    ELSE Outcome(c, us, ts, Err("NotFound", "User not found"))

RedeemPoints(c, us, ts, payload) ==
    IF payload.user_id \in DOMAIN us
    THEN LET user == us[payload.user_id]
             removed == Remove(us, payload.user_id)
         IN  IF ~U64Less(user.points, payload.points)
             THEN Outcome(c,
                          Insert(removed, payload.user_id,
                                 [user EXCEPT !.points = WrappingSub(@, payload.points)]),
                          ts,
                          Ok([kind |-> "Success",
                              msg  |-> <<"Redeemed", payload.points,
                                         "points from user", payload.user_id>>]))
             ELSE Outcome(c, Reinsert(removed, payload.user_id, user), ts,
                          Err("Error", "Insufficient points."))
    ELSE Outcome(c, us, ts, Err("NotFound", "User not found"))

\* ---------------------------------------------------------------- queries
\* the filter of lines 321-323 without its to_user_id half
GetTransactionHistory_SentOnly(ts, user_id) ==
    LET transactions ==
            SelectSeq(Iter(ts), LAMBDA tr : tr.from_user_id = user_id)
    IN  IF transactions = <<>>
        THEN Err("NotFound", "No transactions found")
        ELSE Ok(transactions)

GetTransactionHistory(ts, user_id) ==
    LET transactions ==
            SelectSeq(Iter(ts),
                      LAMBDA tr : tr.from_user_id = user_id \/ tr.to_user_id = user_id)
    IN  IF transactions = <<>>
        THEN Err("NotFound", "No transactions found")
        ELSE Ok(transactions)

GetUserBalance(us, user_id) ==
    LET found == FindUser(us, user_id)
    IN  IF found = None THEN Err("NotFound", "User not found") ELSE Ok(found[1].balance)

GetUserPoints(us, user_id) ==
    LET found == FindUser(us, user_id)
    IN  IF found = None THEN Err("NotFound", "User not found") ELSE Ok(found[1].points)

\* ----------------------------------------------------------------- inputs
\* "Alexander"
Alexander == <<65, 108, 101, 120, 97, 110, 100, 101, 114>>

\* "Bo"
Bo == <<66, 111>>

\* "Cy"
Cy == <<67, 121>>

\* U+039F U+0394 U+039F U+03A3, four Greek capitals that end in a sigma
Odos == <<927, 916, 927, 931>>

UserPayload(first_name, last_name, email, phone_number) ==
    [first_name |-> first_name, last_name |-> last_name,
     email |-> email, phone_number |-> phone_number]

UserPayloads ==
    { \* "a@b.c", "+12"
      UserPayload(Alexander, Bo, <<97, 64, 98, 46, 99>>, <<43, 49, 50>>),
      \* "c@d.e", "1" and U+0663 (ARABIC-INDIC DIGIT THREE)
      UserPayload(Cy, Odos, <<99, 64, 100, 46, 101>>, <<49, 1635>>),
      \* "e@f.g.h", "+1" and U+11F50 (KAWI DIGIT ZERO)
      UserPayload(Odos, Bo, <<101, 64, 102, 46, 103, 46, 104>>, <<43, 49, 73552>>),
      \* the first payload's email again, under another name
      UserPayload(Cy, Odos, <<97, 64, 98, 46, 99>>, <<49, 50>>),
      \* an empty first name
      UserPayload(<<>>, Bo, <<99, 64, 100, 46, 101>>, <<43, 49, 50>>),
      \* "g@h": no dot after the "@"
      UserPayload(Cy, Bo, <<103, 64, 104>>, <<43, 49, 50>>),
      \* "g @h.i": a space
      UserPayload(Cy, Bo, <<103, 32, 64, 104, 46, 105>>, <<43, 49, 50>>),
      \* "g" U+000C "@h.i": a form feed
      UserPayload(Cy, Bo, <<103, 12, 64, 104, 46, 105>>, <<43, 49, 50>>),
      \* "g@h" U+00A0 ".i": a no-break space
      UserPayload(Cy, Bo, <<103, 64, 104, 160, 46, 105>>, <<43, 49, 50>>),
      \* "+1": one digit
      UserPayload(Cy, Bo, <<103, 64, 104, 46, 105>>, <<43, 49>>),
      \* "012": a leading 0
      UserPayload(Cy, Bo, <<103, 64, 104, 46, 105>>, <<48, 49, 50>>),
      \* U+0663 "2": a leading digit outside 1 to 9
      UserPayload(Cy, Bo, <<103, 64, 104, 46, 105>>, <<1635, 50>>) }

\* user ids a caller passes: every id the counter can issue (an id not
\* issued yet, or issued to a transaction, is the id of no user)
UserIds == 0..(MaxId - 1)

Amounts == {U64_ZERO, U64Of(25), U64_MAX}

\* points a caller redeems: none, and what a transfer of each amount awards
PointsAmounts == {DivTen(amount) : amount \in Amounts}

\* ---------------------------------------------------------------- actions
\* A natural number that may exceed u64::MAX: five limbs, most significant
\* first.  Carry brings five column sums to that form.
Carry(s0, s1, s2, s3, s4) ==
    LET d3 == s3 + (s4 \div LimbBase)
        d2 == s2 + (d3 \div LimbBase)
        d1 == s1 + (d2 \div LimbBase)
    IN  <<s0 + (d1 \div LimbBase), d1 % LimbBase, d2 % LimbBase, d3 % LimbBase,
          s4 % LimbBase>>

WIDE_ZERO == <<0, 0, 0, 0, 0>>

\* w + a, for a natural number w and a u64 a
WideAdd(w, a) == Carry(w[1], w[2] + a[1], w[3] + a[2], w[4] + a[3], w[5] + a[4])

\* What has been deposited to a user so far.
Deposited(user_id) ==
    IF user_id \in DOMAIN deposited THEN deposited[user_id] ELSE WIDE_ZERO

Init ==
    /\ counter = 0
    /\ users = EmptyMap
    /\ txs = EmptyMap
    /\ now = 0
    /\ overflow_checks \in BOOLEAN
    /\ credits = 0
    /\ deposited = EmptyMap

\* The call returns out.res (or traps): the stores become those of its
\* outcome.
Returns(out) ==
    /\ counter' = out.counter
    /\ users' = out.users
    /\ txs' = out.txs

\* The clock advances between two readings of time().
Tick(out) == now' = IF out.res.tag = "Ok" THEN now + 1 ELSE now

\* A deposit that succeeds is added to what the user has been deposited.
Deposit(payload, out) ==
    deposited' = IF out.res.tag = "Ok"
                 THEN Insert(deposited, payload.user_id,
                             WideAdd(Deposited(payload.user_id), payload.amount))
                 ELSE deposited

\* A deposit or a redemption that succeeds counts against MaxCredits.
Credit(out) ==
    /\ out.res.tag = "Ok" => credits < MaxCredits
    /\ credits' = IF out.res.tag = "Ok" THEN credits + 1 ELSE credits

TransactionPayload(from_user_id, to_user_id, amount) ==
    [from_user_id |-> from_user_id, to_user_id |-> to_user_id, amount |-> amount]

DepositPayload(user_id, amount) == [user_id |-> user_id, amount |-> amount]

PointsPayload(user_id, points) == [user_id |-> user_id, points |-> points]

TransactionPayloads ==
    {TransactionPayload(f, t, a) : f \in UserIds, t \in UserIds, a \in Amounts}

DepositPayloads == {DepositPayload(u, a) : u \in UserIds, a \in Amounts}

PointsPayloads == {PointsPayload(u, p) : u \in UserIds, p \in PointsAmounts}

create_user ==
    \E payload \in UserPayloads :
        LET out == CreateUser(counter, users, txs, payload, now)
        IN  /\ out.counter <= MaxId
            /\ Returns(out)
            /\ Tick(out)
            /\ UNCHANGED <<overflow_checks, credits, deposited>>

deposit_funds ==
    \E payload \in DepositPayloads :
        LET out == DepositFunds(counter, users, txs, payload)
        IN  /\ Credit(out)
            /\ Returns(out)
            /\ Deposit(payload, out)
            /\ UNCHANGED <<now, overflow_checks>>

send_transaction ==
    \E payload \in TransactionPayloads :
        LET out == SendTransaction(counter, users, txs, payload, now)
        IN  /\ out.counter <= MaxId
            /\ Returns(out)
            /\ Tick(out)
            /\ UNCHANGED <<overflow_checks, credits, deposited>>

redeem_points ==
    \E payload \in PointsPayloads :
        LET out == RedeemPoints(counter, users, txs, payload)
        IN  /\ Credit(out)
            /\ Returns(out)
            /\ UNCHANGED <<now, overflow_checks, deposited>>

\* A query call returns its result and changes nothing.
get_transaction_history ==
    \E user_id \in UserIds :
        /\ GetTransactionHistory(txs, user_id).tag \in {"Ok", "Err"}
        /\ UNCHANGED vars

get_user_balance ==
    \E user_id \in UserIds :
        /\ GetUserBalance(users, user_id).tag \in {"Ok", "Err"}
        /\ UNCHANGED vars

get_user_points ==
    \E user_id \in UserIds :
        /\ GetUserPoints(users, user_id).tag \in {"Ok", "Err"}
        /\ UNCHANGED vars

Next ==
    \/ create_user
    \/ deposit_funds
    \/ send_transaction
    \/ redeem_points
    \/ get_transaction_history
    \/ get_user_balance
    \/ get_user_points

Spec == Init /\ [][Next]_vars

\* ------------------------------------------------- many awards to a sender
\* The calls of two users who send u64::MAX to each other: create_user for
\* the first two payloads, deposit_funds of u64::MAX to the first user and
\* send_transaction of u64::MAX between the two, up to MaxAwardId ids.
AwardUserPayloads ==
    { \* "a@b.c", "+12"
      UserPayload(Alexander, Bo, <<97, 64, 98, 46, 99>>, <<43, 49, 50>>),
      \* "c@d.e", "1" and U+0663 (ARABIC-INDIC DIGIT THREE)
      UserPayload(Cy, Odos, <<99, 64, 100, 46, 101>>, <<49, 1635>>) }

AwardDepositPayloads == {DepositPayload(0, U64_MAX)}

AwardTransactionPayloads ==
    {TransactionPayload(f, t, U64_MAX) : f \in {0, 1}, t \in {0, 1}}

create_user_awards ==
    \E payload \in AwardUserPayloads :
        LET out == CreateUser(counter, users, txs, payload, now)
        IN  /\ out.counter <= MaxAwardId
            /\ Returns(out)
            /\ Tick(out)
            /\ UNCHANGED <<overflow_checks, credits, deposited>>

deposit_funds_awards ==
    \E payload \in AwardDepositPayloads :
        LET out == DepositFunds(counter, users, txs, payload)
        IN  /\ Credit(out)
            /\ Returns(out)
            /\ Deposit(payload, out)
            /\ UNCHANGED <<now, overflow_checks>>

send_transaction_awards ==
    \E payload \in AwardTransactionPayloads :
        LET out == SendTransaction(counter, users, txs, payload, now)
        IN  /\ out.counter <= MaxAwardId
            /\ Returns(out)
            /\ Tick(out)
            /\ UNCHANGED <<overflow_checks, credits, deposited>>

NextAwards ==
    \/ create_user_awards
    \/ deposit_funds_awards
    \/ send_transaction_awards

SpecAwards == Init /\ [][NextAwards]_vars

\* ------------------------------------------------------------- properties
RECURSIVE SumLimb(_, _, _)
SumLimb(us, S, i) ==
    IF S = {} THEN 0
    ELSE LET k == CHOOSE k \in S : TRUE
         IN  us[k].balance[i] + SumLimb(us, S \ {k}, i)

\* The sum of all stored balances as a natural number (it may exceed
\* u64::MAX): five limbs, most significant first.
TotalBalance(us) ==
    LET c4 == SumLimb(us, DOMAIN us, 4)
        c3 == SumLimb(us, DOMAIN us, 3) + (c4 \div LimbBase)
        c2 == SumLimb(us, DOMAIN us, 2) + (c3 \div LimbBase)
        c1 == SumLimb(us, DOMAIN us, 1) + (c2 \div LimbBase)
    IN  <<c1 \div LimbBase, c1 % LimbBase, c2 % LimbBase, c3 % LimbBase, c4 % LimbBase>>

\* a + b, when the sum is a u64
ExactSum(a, b) == IF AddOverflows(a, b) THEN None ELSE Some(WrappingAdd(a, b))

\* The outcomes of the calls a caller can make in the current state.
Sent(payload) == SendTransaction(counter, users, txs, payload, now)

Redeemed(payload) == RedeemPoints(counter, users, txs, payload)

Created(payload) == CreateUser(counter, users, txs, payload, now)

IsErr(res, kind, msg) ==
    res.tag = "Err" /\ res.val.kind = kind /\ res.val.msg = msg

StoresUnchanged(out) ==
    out.counter = counter /\ out.users = users /\ out.txs = txs

\* A step in which send_transaction succeeded: the log has a new entry.
NewTxs == (DOMAIN txs') \ (DOMAIN txs)

\* C1: every successful send_transaction leaves the total balance summed
\* over all stored users unchanged, also when sender and recipient are the
\* same user.
C1_TotalBalanceConserved ==
    [][NewTxs # {} => TotalBalance(users') = TotalBalance(users)]_vars

\* C2: a successful send_transaction(A, B, n) leaves A with its old balance
\* minus n, B with its old balance plus n and every other user's balance
\* unchanged.
C2_DebitAndCredit ==
    [][\A k \in NewTxs :
          LET A == txs'[k].from_user_id
              B == txs'[k].to_user_id
              n == txs'[k].amount
          IN  /\ ~U64Less(users[A].balance, n)
              /\ users'[A].balance = WrappingSub(users[A].balance, n)
              /\ Some(users'[B].balance) = ExactSum(users[B].balance, n)
              /\ \A u \in (DOMAIN users) \ {A, B} :
                    users'[u].balance = users[u].balance]_vars

\* The cases in which send_transaction has to fail.
SendMustFail(payload) ==
    \/ payload.amount = U64_ZERO
    \/ payload.from_user_id \notin DOMAIN users
    \/ payload.to_user_id \notin DOMAIN users
    \/ U64Less(users[payload.from_user_id].balance, payload.amount)

\* C3: send_transaction returns an error when the amount is 0, the sender
\* or the recipient is missing or the sender's balance is below the amount,
\* and whenever it returns an error the user map, the transaction log and
\* the identifier counter are as they were before the call.
C3_SendErrorChangesNothing ==
    \A payload \in TransactionPayloads :
        /\ SendMustFail(payload) => Sent(payload).res.tag = "Err"
        /\ Sent(payload).res.tag = "Err" => StoresUnchanged(Sent(payload))

\* C3 witness: a transfer has been logged, and a sender who holds a balance
\* asks for more than it.
C3_Witness ==
    /\ txs # EmptyMap
    /\ \E payload \in TransactionPayloads :
          /\ payload.from_user_id \in DOMAIN users
          /\ payload.to_user_id \in DOMAIN users
          /\ users[payload.from_user_id].balance # U64_ZERO
          /\ IsErr(Sent(payload).res, "Error", "Insufficient balance.")

\* The ids of the stored records.
StoredIds(us, ts) ==
    {us[k].id : k \in DOMAIN us} \cup {ts[k].id : k \in DOMAIN ts}

\* C4: the ids issued from the shared counter are strictly increasing and
\* pairwise distinct across users and transactions, and the counter is
\* greater than every stored id.
C4_IdsIncreaseBelowCounter ==
    /\ [](/\ Cardinality(StoredIds(users, txs))
                 = Cardinality(DOMAIN users) + Cardinality(DOMAIN txs)
          /\ \A k \in StoredIds(users, txs) : k < counter)
    /\ [][LET old == StoredIds(users, txs)
              new == StoredIds(users', txs') \ old
          IN  /\ \A k \in new : \A j \in old : j < k
              /\ Cardinality(new) = counter' - counter]_vars

\* C4 witness: two users and a transaction have drawn their ids.
C4_Witness ==
    Cardinality(DOMAIN users) = 2 /\ Cardinality(DOMAIN txs) = 1 /\ counter = 3

\* create_user rejects every payload whose email is stored, and stores
\* nothing.
DuplicateEmailRejected ==
    \A payload \in UserPayloads :
        (\E k \in DOMAIN users : users[k].email = payload.email)
            => /\ Created(payload).res.tag = "Err"
               /\ Created(payload).res.val.kind = "InvalidPayload"
               /\ StoresUnchanged(Created(payload))

\* C5: no two stored users have the same email: create_user with a stored
\* email returns InvalidPayload and stores nothing, and no call changes a
\* stored user's email.
C5_EmailsUnique ==
    /\ [](/\ \A j \in DOMAIN users, k \in DOMAIN users :
                 j # k => users[j].email # users[k].email
          /\ DuplicateEmailRejected)
    /\ [][\A k \in (DOMAIN users) \cap (DOMAIN users') :
              users'[k].email = users[k].email]_vars

\* C5 witness: two users are stored and a well-formed payload is turned
\* down for its email alone.
C5_Witness ==
    /\ Cardinality(DOMAIN users) = 2
    /\ \E payload \in UserPayloads :
          IsErr(Created(payload).res, "InvalidPayload", "Email already exists")

\* C6: a successful send_transaction of amount n adds exactly n / 10 to the
\* sender's points and changes no other user's points.
C6_SenderPoints ==
    [][\A k \in NewTxs :
          LET sender == txs'[k].from_user_id
              n == txs'[k].amount
          IN  /\ Some(users'[sender].points) = ExactSum(users[sender].points, DivTen(n))
              /\ \A u \in (DOMAIN users) \ {sender} :
                    users'[u].points = users[u].points]_vars

Involves(tr, user_id) == tr.from_user_id = user_id \/ tr.to_user_id = user_id

\* C7: get_transaction_history(u) returns the logged transactions that
\* involve u, each once, in ascending id order (the order of commitment),
\* and NotFound exactly when there is none.
C7_History ==
    \A u \in UserIds :
        LET r == GetTransactionHistory(txs, u)
            want == {k \in DOMAIN txs : Involves(txs[k], u)}
        IN  IF want = {}
            THEN IsErr(r, "NotFound", "No transactions found")
            ELSE /\ r.tag = "Ok"
                 /\ Len(r.val) = Cardinality(want)
                 /\ {r.val[i] : i \in 1..Len(r.val)} = {txs[k] : k \in want}
                 /\ \A i \in 1..(Len(r.val) - 1) :
                       /\ r.val[i].id < r.val[i + 1].id
                       /\ r.val[i].created_at <= r.val[i + 1].created_at

\* C7 witness: some user's history has two entries.
C7_Witness ==
    \E u \in UserIds :
        /\ GetTransactionHistory(txs, u).tag = "Ok"
        /\ Len(GetTransactionHistory(txs, u).val) >= 2

\* C8: redeem_points for more points than the user holds returns Error and
\* changes nothing; for an id not in the user map it returns NotFound and
\* changes nothing.
C8_RedeemErrorChangesNothing ==
    \A payload \in PointsPayloads :
        /\ payload.user_id \notin DOMAIN users
              => /\ IsErr(Redeemed(payload).res, "NotFound", "User not found")
                 /\ StoresUnchanged(Redeemed(payload))
        /\ (/\ payload.user_id \in DOMAIN users
            /\ U64Less(users[payload.user_id].points, payload.points))
              => /\ IsErr(Redeemed(payload).res, "Error", "Insufficient points.")
                 /\ StoresUnchanged(Redeemed(payload))

\* C8 witness: a user who holds points and a balance asks for more points
\* than held.
C8_Witness ==
    \E payload \in PointsPayloads :
        /\ payload.user_id \in DOMAIN users
        /\ users[payload.user_id].points # U64_ZERO
        /\ users[payload.user_id].balance # U64_ZERO
        /\ IsErr(Redeemed(payload).res, "Error", "Insufficient points.")

\* C9: the transaction log is append-only: every entry stays in the log
\* under its id, unchanged, whatever is called.
C9_LogAppendOnly ==
    [][\A k \in DOMAIN txs : k \in DOMAIN txs' /\ txs'[k] = txs[k]]_vars

\* C9 witness: a second transfer has been logged after a first.
C9_Witness == Cardinality(DOMAIN txs) >= 2

\* C10: users are never deleted: a stored user stays in the user map, under
\* the same id and with the same email, whatever is called.
C10_UsersNeverDeleted ==
    [][\A k \in DOMAIN users :
          /\ k \in DOMAIN users'
          /\ users'[k].id = users[k].id
          /\ users'[k].email = users[k].email]_vars

\* C10 witness: a user has received a deposit, has sent 25 and has redeemed
\* the 2 points awarded for it.
C10_Witness ==
    \E k \in DOMAIN txs :
        /\ txs[k].amount = U64Of(25)
        /\ users[txs[k].from_user_id].points = U64_ZERO
        /\ credits = 2

\* C11: send_transaction fails in a fixed order: amount 0 gives
\* InvalidPayload whoever the users are; otherwise a missing sender gives
\* NotFound "Sender not found", also when the recipient is missing;
\* otherwise a missing recipient gives NotFound "Recipient not found", also
\* when the balance would not suffice; otherwise a balance below the amount
\* gives Error; in every remaining case the call succeeds.
C11_SendPrecedence ==
    \A payload \in TransactionPayloads :
        LET res == Sent(payload).res
            A == payload.from_user_id
            B == payload.to_user_id
        IN  IF payload.amount = U64_ZERO
            THEN res.tag = "Err" /\ res.val.kind = "InvalidPayload"
            ELSE IF A \notin DOMAIN users
            THEN IsErr(res, "NotFound", "Sender not found")
            ELSE IF B \notin DOMAIN users
            THEN IsErr(res, "NotFound", "Recipient not found")
            ELSE IF U64Less(users[A].balance, payload.amount)
            THEN res.tag = "Err" /\ res.val.kind = "Error"
            ELSE res.tag = "Ok"

Funded(payload) == DepositFunds(counter, users, txs, payload)

\* C12: for every stored user and every amount from 1 to u64::MAX,
\* deposit_funds returns Success and sets the balance to the old balance plus
\* the amount, the true sum, and leaves the user's points, every other user
\* and the log unchanged.
C12_DepositExact ==
    \A payload \in DepositPayloads :
        (payload.user_id \in DOMAIN users /\ payload.amount # U64_ZERO)
            => LET out == Funded(payload)
                   u == payload.user_id
               IN  /\ out.res.tag = "Ok"
                   /\ out.res.val.kind = "Success"
                   /\ DOMAIN out.users = DOMAIN users
                   /\ Some(out.users[u].balance)
                          = ExactSum(users[u].balance, payload.amount)
                   /\ out.users[u] = [users[u] EXCEPT !.balance = out.users[u].balance]
                   /\ \A k \in (DOMAIN users) \ {u} : out.users[k] = users[k]
                   /\ out.txs = txs

\* C13: a successful create_user stores the new user under a fresh id with
\* balance 0 and points 0, so get_user_balance and get_user_points on the
\* returned id return 0 at once, and leaves every stored user and the log
\* unchanged.
C13_CreateStoresFresh ==
    \A payload \in UserPayloads :
        LET out == Created(payload)
            id == out.res.val.id
        IN  out.res.tag = "Ok"
                => /\ id \notin DOMAIN users
                   /\ id \notin DOMAIN txs
                   /\ DOMAIN out.users = (DOMAIN users) \cup {id}
                   /\ out.users[id] = out.res.val
                   /\ out.users[id].balance = U64_ZERO
                   /\ out.users[id].points = U64_ZERO
                   /\ GetUserBalance(out.users, id).tag = "Ok"
                   /\ GetUserBalance(out.users, id).val = U64_ZERO
                   /\ GetUserPoints(out.users, id).tag = "Ok"
                   /\ GetUserPoints(out.users, id).val = U64_ZERO
                   /\ \A k \in DOMAIN users : out.users[k] = users[k]
                   /\ out.txs = txs

\* C13 witness: a user with balance 0 and points 0 has been created after a
\* transaction was logged, so next to a user who holds a balance or points.
C13_Witness ==
    \E u \in DOMAIN users, k \in DOMAIN txs :
        /\ u > k
        /\ users[u].balance = U64_ZERO
        /\ users[u].points = U64_ZERO
        /\ GetUserBalance(users, u).val = U64_ZERO

\* The payloads create_user has to turn down.
CreateMustFail(payload) ==
    \/ payload.first_name = <<>>
    \/ payload.last_name = <<>>
    \/ payload.email = <<>>
    \/ payload.phone_number = <<>>
    \/ ~email_regex(payload.email)
    \/ ~phone_regex(payload.phone_number)
    \/ \E k \in DOMAIN users : users[k].email = payload.email

\* C14: every failing create_user (an empty field, a malformed email or
\* phone number, a stored email) and every failing deposit_funds (amount 0
\* gives InvalidPayload, an id not in the user map gives NotFound) leaves the
\* user map, the log and the counter unchanged: a rejected create_user
\* consumes no id.
C14_FailuresChangeNothing ==
    /\ \A payload \in UserPayloads :
          LET out == Created(payload)
          IN  /\ CreateMustFail(payload)
                    => out.res.tag = "Err" /\ out.res.val.kind = "InvalidPayload"
              /\ out.res.tag = "Err" => StoresUnchanged(out)
    /\ \A payload \in DepositPayloads :
          LET out == Funded(payload)
          IN  /\ payload.amount = U64_ZERO
                    => out.res.tag = "Err" /\ out.res.val.kind = "InvalidPayload"
              /\ (payload.amount # U64_ZERO /\ payload.user_id \notin DOMAIN users)
                    => IsErr(out.res, "NotFound", "User not found")
              /\ out.res.tag = "Err" => StoresUnchanged(out)

\* C14 witness: with a user and a transaction stored and one id left
\* unissued, a create_user fails on its phone number and a deposit_funds
\* fails on its user id.
C14_Witness ==
    /\ users # EmptyMap
    /\ txs # EmptyMap
    /\ \E payload \in UserPayloads :
          IsErr(Created(payload).res, "InvalidPayload", "Invalid phone number format")
    /\ \E payload \in DepositPayloads :
          IsErr(Funded(payload).res, "NotFound", "User not found")

\* C15: in every reachable state every logged transaction has an amount
\* above 0 and a sender id and a recipient id that are ids of users stored
\* in the user map.
C15_LoggedTransactionsValid ==
    \A k \in DOMAIN txs :
        /\ txs[k].amount # U64_ZERO
        /\ txs[k].from_user_id \in DOMAIN users
        /\ txs[k].to_user_id \in DOMAIN users

\* C15 witness: the whole of u64::MAX has been sent from one user to
\* another.
C15_Witness ==
    \E k \in DOMAIN txs :
        /\ txs[k].amount = U64_MAX
        /\ txs[k].from_user_id # txs[k].to_user_id

\* The sum of limb i of the amounts of the logged transactions S.
RECURSIVE SumAmount(_, _, _)
SumAmount(ts, S, i) ==
    IF S = {}
    THEN 0
    ELSE LET k == CHOOSE k \in S : TRUE
         IN  ts[k].amount[i] + SumAmount(ts, S \ {k}, i)

SentBy(user_id) == {k \in DOMAIN txs : txs[k].from_user_id = user_id}

ReceivedBy(user_id) == {k \in DOMAIN txs : txs[k].to_user_id = user_id}

\* C16: each user's balance is what was deposited to the user with success,
\* plus the amounts of the logged transactions the user received, minus the
\* amounts of the logged transactions the user sent (as natural numbers:
\* balance + sent = deposited + received).
C16_BalanceReconstructible ==
    \A u \in DOMAIN users :
        LET b == users[u].balance
            D == Deposited(u)
            S == SentBy(u)
            R == ReceivedBy(u)
        IN  Carry(0,
                  b[1] + SumAmount(txs, S, 1), b[2] + SumAmount(txs, S, 2),
                  b[3] + SumAmount(txs, S, 3), b[4] + SumAmount(txs, S, 4))
            = Carry(D[1],
                    D[2] + SumAmount(txs, R, 1), D[3] + SumAmount(txs, R, 2),
                    D[4] + SumAmount(txs, R, 3), D[5] + SumAmount(txs, R, 4))

\* C17: each successful send_transaction adds exactly one entry to the log
\* and advances the counter by exactly one; the record returned is the entry
\* stored under its id, and its sender, recipient and amount are those of
\* the request.
C17_SendLogsOne ==
    \A payload \in TransactionPayloads :
        LET out == Sent(payload)
            tr == out.res.val
        IN  out.res.tag = "Ok"
                => /\ out.counter = counter + 1
                   /\ tr.id \notin DOMAIN txs
                   /\ DOMAIN out.txs = (DOMAIN txs) \cup {tr.id}
                   /\ \A k \in DOMAIN txs : out.txs[k] = txs[k]
                   /\ out.txs[tr.id] = tr
                   /\ tr.from_user_id = payload.from_user_id
                   /\ tr.to_user_id = payload.to_user_id
                   /\ tr.amount = payload.amount

\* C17 witness: with a transaction in the log, a transfer between two
\* users succeeds.
C17_Witness ==
    /\ txs # EmptyMap
    /\ \E payload \in TransactionPayloads :
          /\ payload.from_user_id # payload.to_user_id
          /\ Sent(payload).res.tag = "Ok"

\* C18: redeem_points(u, p) for a stored user u and p at most the user's
\* points, p = 0 included, returns Success and sets the points to the old
\* points minus p, leaving the user's balance, every other user, the log and
\* the counter unchanged.
C18_RedeemSucceeds ==
    \A payload \in PointsPayloads :
        (/\ payload.user_id \in DOMAIN users
         /\ ~U64Less(users[payload.user_id].points, payload.points))
            => LET out == Redeemed(payload)
                   u == payload.user_id
               IN  /\ out.res.tag = "Ok"
                   /\ out.res.val.kind = "Success"
                   /\ DOMAIN out.users = DOMAIN users
                   /\ ExactSum(out.users[u].points, payload.points)
                          = Some(users[u].points)
                   /\ out.users[u] = [users[u] EXCEPT !.points = out.users[u].points]
                   /\ \A k \in (DOMAIN users) \ {u} : out.users[k] = users[k]
                   /\ out.txs = txs
                   /\ out.counter = counter

\* C18 witness: a user who holds a balance and points redeems all of the
\* points, and another payload redeems none.
C18_Witness ==
    \E payload \in PointsPayloads, zero \in PointsPayloads :
        /\ payload.user_id \in DOMAIN users
        /\ zero.user_id = payload.user_id
        /\ zero.points = U64_ZERO
        /\ payload.points # U64_ZERO
        /\ payload.points = users[payload.user_id].points
        /\ users[payload.user_id].balance # U64_ZERO
        /\ Redeemed(payload).res.tag = "Ok"
        /\ Redeemed(zero).res.tag = "Ok"

\* C20: every key k of the user map holds a user whose id is k and every key
\* k of the transaction log holds a transaction whose id is k, so a lookup by
\* the id field and a write-back by key address the same record.
C20_KeysAreIds ==
    /\ \A k \in DOMAIN users : users[k].id = k
    /\ \A k \in DOMAIN txs : txs[k].id = k
    /\ \A id \in UserIds :
          FindUser(users, id) = IF id \in DOMAIN users THEN Some(users[id]) ELSE None

\* C20 witness: a user has been stored under the id after a transaction's,
\* and the transaction's sender has had its record written back.
C20_Witness ==
    \E k \in DOMAIN txs :
        /\ k + 1 \in DOMAIN users
        /\ users[txs[k].from_user_id].points # U64_ZERO

====
